---- MODULE Spec2Model ----
(***************************************************************************)
(* Model of proj_geom: the vector helpers of pg_common.py and the generic  *)
(* projective-plane algorithms of pg_plane.py.  The library is stateless;  *)
(* a behaviour is one caller session: the arguments are chosen in Init,    *)
(* one action per library function applies it and records the outcome      *)
(* (a returned value or the raised exception), and chained actions feed a  *)
(* returned value back into the same function.                             *)
(*                                                                         *)
(* pg_plane.py is written against the abstract ProjectivePlane contract.   *)
(* The point/line realisation used here is the homogeneous integer         *)
(* coordinate one (PgPoint/PgLine of the docstrings): circ is the cross    *)
(* product, dot the dot product, equality is projective equality, aux      *)
(* re-tags the coordinates with the dual role and plucker is the linear    *)
(* combination of coordinates.                                             *)
(***************************************************************************)
EXTENDS Integers, Sequences, FiniteSets, TLC

VARIABLES args, op, res

vars == <<args, op, res>>

(* ---------------- bounds ---------------- *)
MaxCoord == 1
MaxLen == 3
NumTriPts == 8
NumInvPts == 26

(* ---------------- outcomes of a call ---------------- *)
Ok(v) == [kind |-> "ok", val |-> v]
Raise(k, m) == [kind |-> k, val |-> m]
NoResult == [kind |-> "none", val |-> "None"]

(* ---------------- pg_common.py ---------------- *)
RECURSIVE SumProducts(_, _, _)
SumProducts(vector1, vector2, n) ==
    IF n = 0 THEN 0
    ELSE SumProducts(vector1, vector2, n - 1) + vector1[n] * vector2[n]


(* mutant: the sum stops one component early *)
dot_product_short(vector1, vector2) ==
    IF Len(vector1) # Len(vector2)
    THEN Raise("ValueError", "Vectors must be the same length")
    ELSE Ok(SumProducts(vector1, vector2,
                        IF Len(vector1) = 0 THEN 0 ELSE Len(vector1) - 1))

dot_product(vector1, vector2) ==
    IF Len(vector1) # Len(vector2)
    THEN Raise("ValueError", "Vectors must be the same length")
    ELSE Ok(SumProducts(vector1, vector2, Len(vector1)))


(* mutant: the middle component has its two products swapped *)
cross_product_sign(vector1, vector2) ==
    IF Len(vector1) # Len(vector2)
    THEN Raise("ValueError", "Vectors must be the same length")
    ELSE IF Len(vector1) # 3
    THEN Raise("ValueError", "Vectors must be 3D")
    ELSE Ok(<< vector1[2] * vector2[3] - vector1[3] * vector2[2],
               vector1[1] * vector2[3] - vector1[3] * vector2[1],
               vector1[1] * vector2[2] - vector1[2] * vector2[1] >>)

cross_product(vector1, vector2) ==
    IF Len(vector1) # Len(vector2)
    THEN Raise("ValueError", "Vectors must be the same length")
    ELSE IF Len(vector1) # 3
    THEN Raise("ValueError", "Vectors must be 3D")
    ELSE Ok(<< vector1[2] * vector2[3] - vector1[3] * vector2[2],
               vector1[3] * vector2[1] - vector1[1] * vector2[3],
               vector1[1] * vector2[2] - vector1[2] * vector2[1] >>)

Digit(d) ==
    CASE d = 0 -> "0" [] d = 1 -> "1" [] d = 2 -> "2" [] d = 3 -> "3"
      [] d = 4 -> "4" [] d = 5 -> "5" [] d = 6 -> "6" [] d = 7 -> "7"
      [] d = 8 -> "8" [] d = 9 -> "9"

RECURSIVE NatStr(_)
NatStr(n) == IF n < 10 THEN Digit(n) ELSE NatStr(n \div 10) \o Digit(n % 10)

str(n) == IF n < 0 THEN "-" \o NatStr(0 - n) ELSE NatStr(n)

parametric_line_equation(point1, point2) ==
    IF Len(point1) # Len(point2)
    THEN Raise("ValueError", "Points must be the same length")
    ELSE IF Len(point2) < 3
    THEN Raise("IndexError", "list index out of range")
    ELSE Ok("x = " \o str(point2[1]) \o ", y = " \o str(point2[2])
            \o ", z = " \o str(point2[3]))

(* ---------------- argument sets ---------------- *)
Elems == (0 - 1)..MaxCoord

Vectors == UNION {[1..n -> Elems] : n \in 0..MaxLen}
           \cup {<<1, 2, 3>>, <<4, 5, 6>>, <<4, 5, 6, 7>>, <<4, 5>>}

InitVec == /\ args \in Vectors \X Vectors
           /\ op = "none"
           /\ res = NoResult

DoDotProduct ==
    /\ op = "none"
    /\ op' = "dot_product"
    /\ res' = dot_product(args[1], args[2])
    /\ UNCHANGED args

DoCrossProduct ==
    /\ op = "none"
    /\ op' = "cross_product"
    /\ res' = cross_product(args[1], args[2])
    /\ UNCHANGED args

DoParametricLineEquation ==
    /\ op = "none"
    /\ op' = "parametric_line_equation"
    /\ res' = parametric_line_equation(args[1], args[2])
    /\ UNCHANGED args

NextVec == DoDotProduct \/ DoCrossProduct \/ DoParametricLineEquation

SpecVec == InitVec /\ [][NextVec]_vars

(* ---------------- the coordinate realisation of the contract ---------------- *)
(* PgPoint/PgLine: a value is its homogeneous coordinate triple. *)
eq(self, rhs) == cross_product(self, rhs) = Ok(<<0, 0, 0>>)

circ(self, rhs) == cross_product(self, rhs).val

aux(self) == self

dot(self, line_l) == dot_product(self, line_l).val

plucker(self, lambda_p, pt_q, mu_q) ==
    << lambda_p * self[1] + mu_q * pt_q[1],
       lambda_p * self[2] + mu_q * pt_q[2],
       lambda_p * self[3] + mu_q * pt_q[3] >>

(* ---------------- pg_plane.py ---------------- *)
incident(self, line_l) == dot(self, line_l) = 0

member_coincident(self, pt_q, pt_r) == incident(circ(self, pt_q), pt_r)


(* mutant: the two Pluecker weights are exchanged *)
member_harm_conj_swapped(self, pt_a, pt_b) ==
    IF ~member_coincident(self, pt_a, pt_b)
    THEN Raise("AssertionError", "")
    ELSE LET line_ab == circ(pt_a, pt_b)
             line_l == circ(aux(line_ab), self)
         IN  Ok(plucker(pt_a, dot(line_l, pt_a), pt_b, dot(line_l, pt_b)))

member_harm_conj(self, pt_a, pt_b) ==
    IF ~member_coincident(self, pt_a, pt_b)
    THEN Raise("AssertionError", "")
    ELSE LET line_ab == circ(pt_a, pt_b)
             line_l == circ(aux(line_ab), self)
         IN  Ok(plucker(pt_a, dot(line_l, pt_b), pt_b, dot(line_l, pt_a)))

check_axiom(pt_p, pt_q, line_l) ==
    IF ~eq(pt_p, pt_p) THEN Raise("AssertionError", "")
    ELSE IF eq(pt_p, pt_q) # eq(pt_q, pt_p) THEN Raise("AssertionError", "")
    ELSE IF incident(pt_p, line_l) # incident(line_l, pt_p)
    THEN Raise("AssertionError", "")
    ELSE IF ~eq(circ(pt_p, pt_q), circ(pt_q, pt_p))
    THEN Raise("AssertionError", "")
    ELSE LET line_m == circ(pt_p, pt_q)
         IN  IF ~(incident(line_m, pt_p) /\ incident(line_m, pt_q))
             THEN Raise("AssertionError", "")
             ELSE Ok("None")

coincident(pt_p, pt_q, pt_r) == incident(circ(pt_p, pt_q), pt_r)


(* mutant: the third cross-join meets c-d instead of c-e *)
check_pappus_typo(co1, co2) ==
    LET pt_a == co1[1]
        pt_b == co1[2]
        pt_c == co1[3]
        pt_d == co2[1]
        pt_e == co2[2]
        pt_f == co2[3]
        pt_g == circ(circ(pt_a, pt_e), circ(pt_b, pt_d))
        pt_h == circ(circ(pt_a, pt_f), circ(pt_c, pt_d))
        pt_i == circ(circ(pt_b, pt_f), circ(pt_c, pt_d))
    IN  Ok(coincident(pt_g, pt_h, pt_i))

check_pappus(co1, co2) ==
    LET pt_a == co1[1]
        pt_b == co1[2]
        pt_c == co1[3]
        pt_d == co2[1]
        pt_e == co2[2]
        pt_f == co2[3]
        pt_g == circ(circ(pt_a, pt_e), circ(pt_b, pt_d))
        pt_h == circ(circ(pt_a, pt_f), circ(pt_c, pt_d))
        pt_i == circ(circ(pt_b, pt_f), circ(pt_c, pt_e))
    IN  Ok(coincident(pt_g, pt_h, pt_i))


(* mutant: the edges come out rotated by one place *)
tri_dual_rotated(tri) ==
    LET a_1 == tri[1]
        a_2 == tri[2]
        a_3 == tri[3]
    IN  IF coincident(a_1, a_2, a_3)
        THEN Raise("AssertionError", "")
        ELSE Ok(<<circ(a_1, a_2), circ(a_2, a_3), circ(a_1, a_3)>>)

tri_dual(tri) ==
    LET a_1 == tri[1]
        a_2 == tri[2]
        a_3 == tri[3]
    IN  IF coincident(a_1, a_2, a_3)
        THEN Raise("AssertionError", "")
        ELSE Ok(<<circ(a_2, a_3), circ(a_1, a_3), circ(a_1, a_2)>>)

persp(tri1, tri2) ==
    LET pt_a == tri1[1]
        pt_b == tri1[2]
        pt_c == tri1[3]
        pt_d == tri2[1]
        pt_e == tri2[2]
        pt_f == tri2[3]
        pt_o == circ(circ(pt_a, pt_d), circ(pt_b, pt_e))
    IN  Ok(incident(circ(pt_c, pt_f), pt_o))


(* mutant: the "both false" half of the agreement test is dropped *)
check_desargue_and(tri1, tri2) ==
    LET trid1 == tri_dual(tri1)
        trid2 == tri_dual(tri2)
    IN  IF trid1.kind # "ok" THEN trid1
        ELSE IF trid2.kind # "ok" THEN trid2
        ELSE LET bool1 == persp(tri1, tri2).val
                 bool2 == persp(trid1.val, trid2.val).val
             IN  Ok(bool1 /\ bool2)

check_desargue(tri1, tri2) ==
    LET trid1 == tri_dual(tri1)
        trid2 == tri_dual(tri2)
    IN  IF trid1.kind # "ok" THEN trid1
        ELSE IF trid2.kind # "ok" THEN trid2
        ELSE LET bool1 == persp(tri1, tri2).val
                 bool2 == persp(trid1.val, trid2.val).val
             IN  Ok((bool1 /\ bool2) \/ (~bool1 /\ ~bool2))


(* mutant: both weights are measured against pt_b *)
harm_conj_typo(pt_a, pt_b, pt_c) ==
    IF ~coincident(pt_a, pt_b, pt_c)
    THEN Raise("AssertionError", "")
    ELSE LET ab == circ(pt_a, pt_b)
             lc == circ(aux(ab), pt_c)
         IN  Ok(plucker(pt_a, dot(lc, pt_b), pt_b, dot(lc, pt_b)))

harm_conj(pt_a, pt_b, pt_c) ==
    IF ~coincident(pt_a, pt_b, pt_c)
    THEN Raise("AssertionError", "")
    ELSE LET ab == circ(pt_a, pt_b)
             lc == circ(aux(ab), pt_c)
         IN  Ok(plucker(pt_a, dot(lc, pt_b), pt_b, dot(lc, pt_a)))


(* mutant: origin and pt_p are passed to harm_conj in each other's place *)
involution_slip(origin, mirror, pt_p) ==
    LET line_po == circ(pt_p, origin)
        pt_b == circ(line_po, mirror)
    IN  harm_conj(pt_p, pt_b, origin)

involution(origin, mirror, pt_p) ==
    LET line_po == circ(pt_p, origin)
        pt_b == circ(line_po, mirror)
    IN  harm_conj(origin, pt_b, pt_p)

(* ---------------- a session on three points / lines ---------------- *)
Coords == [1..3 -> Elems]

InitPlane == /\ args \in Coords \X Coords \X Coords
             /\ op = "none"
             /\ res = NoResult

DoCheckAxiom ==
    /\ op = "none"
    /\ op' = "check_axiom"
    /\ res' = check_axiom(args[1], args[2], args[3])
    /\ UNCHANGED args

DoHarmConj ==
    /\ op = "none"
    /\ op' = "harm_conj"
    /\ res' = harm_conj(args[1], args[2], args[3])
    /\ UNCHANGED args

DoHarmConjAgain ==
    /\ op = "harm_conj"
    /\ res.kind = "ok"
    /\ op' = "harm_conj_twice"
    /\ res' = harm_conj(args[1], args[2], res.val)
    /\ UNCHANGED args

DoMemberHarmConj ==
    /\ op = "none"
    /\ op' = "member_harm_conj"
    /\ res' = member_harm_conj(args[3], args[1], args[2])
    /\ UNCHANGED args

DoTriDual ==
    /\ op = "none"
    /\ op' = "tri_dual"
    /\ res' = tri_dual(args)
    /\ UNCHANGED args

DoTriDualAgain ==
    /\ op = "tri_dual"
    /\ res.kind = "ok"
    /\ op' = "tri_dual_twice"
    /\ res' = tri_dual(res.val)
    /\ UNCHANGED args

NextPlane ==
    \/ DoCheckAxiom
    \/ DoHarmConj
    \/ DoHarmConjAgain
    \/ DoMemberHarmConj
    \/ DoTriDual
    \/ DoTriDualAgain

SpecPlane == InitPlane /\ [][NextPlane]_vars

(* ---------------- a session on an origin, a mirror and a point ---------------- *)
(* The k-th coordinate triple over {0, 1, -1}, k read in base 3: 1..26 are
   the points with entries in -1..1 and 27 is the zero triple. Entries are
   kept this small because the second application of involution multiplies
   coordinates of degree 9 in the inputs, which leaves TLC's 32-bit integers
   for any entry of magnitude 2. *)
Trit(d) == IF d = 2 THEN 0 - 1 ELSE d

CoordOf(k) == <<Trit(k % 3), Trit((k \div 3) % 3), Trit((k \div 9) % 3)>>

InvPts == {CoordOf(k) : k \in 1..NumInvPts}

InitInvol == /\ args \in InvPts \X InvPts \X InvPts
             /\ op = "none"
             /\ res = NoResult

DoInvolution ==
    /\ op = "none"
    /\ op' = "involution"
    /\ res' = involution(args[1], args[2], args[3])
    /\ UNCHANGED args

DoInvolutionAgain ==
    /\ op = "involution"
    /\ res.kind = "ok"
    /\ op' = "involution_twice"
    /\ res' = involution(args[1], args[2], res.val)
    /\ UNCHANGED args

NextInvol == DoInvolution \/ DoInvolutionAgain

SpecInvol == InitInvol /\ [][NextInvol]_vars

(* ---------------- a session on two triples of points ---------------- *)
PointPool == << <<0, 1, 0>>, <<0, 0, 1>>, <<1, 0, 0>>, <<1, 1, 0>>,
                <<0, 1, 1>>, <<1, 0, 1>>, <<1, 1, 2>>, <<1, 1, 1>>,
                <<1, -1, 2>>, <<0, 0, 0>>, <<2, 1, -1>>, <<3, 1, 2>> >>

TriPts == {PointPool[k] : k \in 1..(IF NumTriPts < Len(PointPool)
                                     THEN NumTriPts ELSE Len(PointPool))}

Triples == TriPts \X TriPts \X TriPts

InitTri == /\ args \in Triples \X Triples
           /\ op = "none"
           /\ res = NoResult

DoPersp ==
    /\ op = "none"
    /\ op' = "persp"
    /\ res' = persp(args[1], args[2])
    /\ UNCHANGED args

DoCheckPappus ==
    /\ op = "none"
    /\ op' = "check_pappus"
    /\ res' = check_pappus(args[1], args[2])
    /\ UNCHANGED args

DoCheckDesargue ==
    /\ op = "none"
    /\ op' = "check_desargue"
    /\ res' = check_desargue(args[1], args[2])
    /\ UNCHANGED args

NextTri == DoPersp \/ DoCheckPappus \/ DoCheckDesargue

SpecTri == InitTri /\ [][NextTri]_vars

(* ---------------- properties ---------------- *)
Zero == <<0, 0, 0>>

Valid(v) == v # Zero

Neg(v) == <<0 - v[1], 0 - v[2], 0 - v[3]>>

(* equal as projective points: proportional and both non-zero *)
ProjEq(u, v) == Valid(u) /\ Valid(v) /\ eq(u, v)

RefTri1 == << <<0, 1, 0>>, <<0, 0, 1>>, <<1, 0, 0>> >>

RefTri2 == << <<0, 0, 1>>, <<0, 1, 0>>, <<1, 0, 0>> >>

(* C1: Desargues. For every two triangles that both pass tri_dual's
   non-collinearity assertion, check_desargue returns True: perspectivity of
   the triangles and of their dual triangles agree; persp and check_desargue
   return True on the documented reference triangles. *)
Thm_C1_Desargues ==
    /\ (op = "check_desargue" /\ ~coincident(args[1][1], args[1][2], args[1][3])
                               /\ ~coincident(args[2][1], args[2][2], args[2][3]))
        => /\ res = Ok(TRUE)
           /\ persp(args[1], args[2])
                = persp(tri_dual(args[1]).val, tri_dual(args[2]).val)
    /\ (op = "persp" /\ args = <<RefTri1, RefTri2>>) => res = Ok(TRUE)
    /\ (op = "check_desargue" /\ args = <<RefTri1, RefTri2>>) => res = Ok(TRUE)

Wit_C1_Desargues ==
    /\ op = "check_desargue"
    /\ res = Ok(TRUE)
    /\ persp(args[1], args[2]) = Ok(FALSE)
    /\ \A i \in 1..3 : ~eq(args[1][i], args[2][i])

(* C2: harmonic conjugation is involutive. Whenever harm_conj(a, b, c)
   returned, harm_conj(a, b, <that result>) returns too and its value equals
   c under the points' equality; when a and b are different points and c is
   a point, that value is a non-zero multiple of c. *)
Thm_C2_HarmConjInvolutive ==
    /\ (op = "harm_conj" /\ coincident(args[1], args[2], args[3]))
        => res.kind = "ok"
    /\ op = "harm_conj_twice" => (res.kind = "ok" /\ eq(res.val, args[3]))
    /\ (op = "harm_conj_twice" /\ Valid(args[1]) /\ Valid(args[2])
                               /\ Valid(args[3]) /\ ~eq(args[1], args[2]))
        => ProjEq(res.val, args[3])

Wit_C2_HarmConjInvolutive ==
    /\ op = "harm_conj_twice"
    /\ res.kind = "ok"
    /\ Valid(res.val)
    /\ \A i \in 1..3 : Valid(args[i])
    /\ ~eq(args[1], args[2]) /\ ~eq(args[1], args[3]) /\ ~eq(args[2], args[3])
    /\ ~eq(harm_conj(args[1], args[2], args[3]).val, args[3])

(* C3: check_axiom(p, q, l) never raises: every one of its assertions holds
   for all points p, q and lines l. *)
Thm_C3_CheckAxiomNeverRaises ==
    op = "check_axiom" => res = Ok("None")

Wit_C3_CheckAxiomNeverRaises ==
    /\ op = "check_axiom"
    /\ res.kind = "ok"
    /\ \A i \in 1..3 : Valid(args[i])
    /\ ~eq(args[1], args[2])
    /\ ~incident(args[1], args[3])
    /\ incident(args[2], args[3])

(* C4: Pappus. When both triples are coincident, check_pappus returns True;
   it also returns True on the documented reference triples. *)
Thm_C4_Pappus ==
    /\ (op = "check_pappus" /\ coincident(args[1][1], args[1][2], args[1][3])
                             /\ coincident(args[2][1], args[2][2], args[2][3]))
        => res = Ok(TRUE)
    /\ (op = "check_pappus" /\ args = <<RefTri1, RefTri2>>) => res = Ok(TRUE)

Wit_C4_Pappus ==
    /\ op = "check_pappus"
    /\ res = Ok(TRUE)
    /\ coincident(args[1][1], args[1][2], args[1][3])
    /\ coincident(args[2][1], args[2][2], args[2][3])
    /\ \A i \in 1..3 : \A j \in 1..3 :
          /\ Valid(args[1][i]) /\ Valid(args[2][j])
          /\ ~eq(args[1][i], args[2][j])
          /\ (i # j => ~eq(args[1][i], args[1][j]) /\ ~eq(args[2][i], args[2][j]))
    /\ LET g == circ(circ(args[1][1], args[2][2]), circ(args[1][2], args[2][1]))
           h == circ(circ(args[1][1], args[2][3]), circ(args[1][3], args[2][1]))
           i == circ(circ(args[1][2], args[2][3]), circ(args[1][3], args[2][2]))
       IN  Valid(g) /\ Valid(h) /\ Valid(i)
           /\ ~eq(g, h) /\ ~eq(g, i) /\ ~eq(h, i)

(* C5: the dual of the dual triangle. For every non-collinear triangle,
   tri_dual(tri_dual(tri)) returns (the dual passes the assertion) and its
   i-th element is the same projective point as the i-th element of tri. *)
Thm_C5_DoubleDual ==
    /\ (op = "tri_dual" /\ ~coincident(args[1], args[2], args[3]))
        => res = Ok(<<circ(args[2], args[3]), circ(args[1], args[3]),
                      circ(args[1], args[2])>>)
    /\ (op = "tri_dual_twice" /\ ~coincident(args[1], args[2], args[3]))
        => /\ res.kind = "ok"
           /\ \A i \in 1..3 : ProjEq(res.val[i], args[i])

Wit_C5_DoubleDual ==
    /\ op = "tri_dual_twice"
    /\ res.kind = "ok"
    /\ res.val # args
    /\ \A i \in 1..3 : args[i][i] # 0 /\ ProjEq(res.val[i], args[i])

(* C6 (as claimed): involution fails with the assertion error on a
   degenerate configuration: pt_p equal to origin, or the line pt_p-origin
   equal to mirror. *)
Degenerate(origin, mirror, pt_p) ==
    /\ Valid(origin) /\ Valid(mirror) /\ Valid(pt_p)
    /\ \/ eq(pt_p, origin)
       \/ ProjEq(circ(pt_p, origin), mirror)

Orig_C6_InvolutionFailsOnDegenerate ==
    (op = "involution" /\ Degenerate(args[1], args[2], args[3]))
        => res.kind = "AssertionError"

(* C7 (as claimed): parametric_line_equation raises ValueError("Points must
   be the same length") exactly when the lengths differ and otherwise
   returns the formatted string; nothing else is ever raised. *)
Orig_C7_OnlyInvalidInput ==
    op = "parametric_line_equation"
        => IF Len(args[1]) # Len(args[2])
           THEN res = Raise("ValueError", "Points must be the same length")
           ELSE res.kind = "ok"

(* C8: cross_product of two 3-component vectors is the stated formula and
   is the componentwise negation of the product taken in the other order;
   [1,2,3] x [4,5,6] = [-3,6,-3]. *)
Thm_C8_CrossAntiCommutative ==
    (op = "cross_product" /\ Len(args[1]) = 3 /\ Len(args[2]) = 3)
        => LET v1 == args[1]
               v2 == args[2]
           IN  /\ res = Ok(<< v1[2] * v2[3] - v1[3] * v2[2],
                              v1[3] * v2[1] - v1[1] * v2[3],
                              v1[1] * v2[2] - v1[2] * v2[1] >>)
               /\ cross_product(v2, v1).kind = "ok"
               /\ res.val = Neg(cross_product(v2, v1).val)
               /\ (v1 = <<1, 2, 3>> /\ v2 = <<4, 5, 6>>)
                     => res.val = <<0 - 3, 6, 0 - 3>>

Wit_C8_CrossAntiCommutative ==
    /\ op = "cross_product"
    /\ args = << <<1, 2, 3>>, <<4, 5, 6>> >>
    /\ res = Ok(<<0 - 3, 6, 0 - 3>>)

(* C9: the member c.harm_conj(a, b) and the free harm_conj(a, b, c) agree:
   their preconditions hold for the same arguments, they raise together and
   they return the same value. *)
Thm_C9_MemberFreeAgree ==
    /\ op = "member_harm_conj"
        => /\ res = harm_conj(args[1], args[2], args[3])
           /\ (res.kind = "AssertionError") = ~coincident(args[1], args[2], args[3])
           /\ res.kind = "ok" => eq(res.val, harm_conj(args[1], args[2], args[3]).val)
    /\ op = "harm_conj"
        => /\ res = member_harm_conj(args[3], args[1], args[2])
           /\ (res.kind = "AssertionError") = ~member_coincident(args[3], args[1], args[2])
    /\ op \in {"none", "harm_conj", "member_harm_conj"}
        => member_coincident(args[3], args[1], args[2])
             = coincident(args[1], args[2], args[3])

Wit_C9_MemberFreeAgree ==
    /\ op = "member_harm_conj"
    /\ res.kind = "ok"
    /\ Valid(res.val)
    /\ \A i \in 1..3 : Valid(args[i])
    /\ ~eq(args[1], args[2]) /\ ~eq(args[1], args[3]) /\ ~eq(args[2], args[3])
    /\ ~eq(res.val, args[3])

(* C10: with origin off the mirror and pt_p a point other than origin,
   involution returns, it maps every point of the mirror to itself, and
   applying it to its own result gives pt_p back (as projective points). *)
InvolutionPre(origin, mirror, pt_p) ==
    /\ Valid(origin) /\ Valid(mirror) /\ Valid(pt_p)
    /\ ~incident(origin, mirror)
    /\ ~eq(pt_p, origin)

Thm_C10_InvolutionSelfInverse ==
    /\ (op = "involution" /\ InvolutionPre(args[1], args[2], args[3]))
        => /\ res.kind = "ok"
           /\ incident(args[3], args[2]) => ProjEq(res.val, args[3])
    /\ (op = "involution_twice" /\ InvolutionPre(args[1], args[2], args[3]))
        => /\ res.kind = "ok"
           /\ ProjEq(res.val, args[3])

Wit_C10_InvolutionSelfInverse ==
    /\ op = "involution_twice"
    /\ InvolutionPre(args[1], args[2], args[3])
    /\ ~incident(args[3], args[2])
    /\ res.kind = "ok"
    /\ ProjEq(res.val, args[3])
    /\ ~eq(involution(args[1], args[2], args[3]).val, args[3])

====
